---- MODULE Spec2Model ----
(***************************************************************************)
(* Lucid Sandbox Agent: the POST /api/execute pipeline (x402 payment       *)
(* middleware, executeHandler, SandboxExecutor), the tier configuration    *)
(* and the execution proof.                                                *)
(*                                                                         *)
(* Strings whose text the code inspects (String.includes, parseFloat,      *)
(* template literals) are sequences of one-character strings.              *)
(***************************************************************************)
EXTENDS Integers, Sequences, FiniteSets, TLC

VARIABLES
    env,        \* process.env: the three price variables
    CONFIG,     \* config.ts: whether it has been evaluated, and CONFIG.pricing
    now,        \* Date.now()
    reqs,       \* the requests in flight, one record per connection slot
    isolates,   \* every ivm.Isolate constructed so far: id -> owner, state
    consumed,   \* the verifier's replay store of consumed nonces
    px,         \* proof check: the input tuple handed to generateProof / verifyProof
    pdigest,    \* proof check: the digest generateProof returned
    pverified   \* proof check: what verifyProof returned

vars == <<env, CONFIG, now, reqs, isolates, consumed, px, pdigest, pverified>>

(***************************************************************************)
(* Text helpers                                                            *)
(***************************************************************************)
Digit == {"0", "1", "2", "3", "4", "5", "6", "7", "8", "9"}

DigitVal(c) ==
    CASE c = "0" -> 0 [] c = "1" -> 1 [] c = "2" -> 2 [] c = "3" -> 3
      [] c = "4" -> 4 [] c = "5" -> 5 [] c = "6" -> 6 [] c = "7" -> 7
      [] c = "8" -> 8 [] c = "9" -> 9

DigitChar(d) ==
    CASE d = 0 -> "0" [] d = 1 -> "1" [] d = 2 -> "2" [] d = 3 -> "3"
      [] d = 4 -> "4" [] d = 5 -> "5" [] d = 6 -> "6" [] d = 7 -> "7"
      [] d = 8 -> "8" [] d = 9 -> "9"

RECURSIVE NatToChars(_)
NatToChars(n) ==
    IF n < 10 THEN <<DigitChar(n)>>
    ELSE NatToChars(n \div 10) \o <<DigitChar(n % 10)>>

\* `${n}` of a template literal, n an integer
NumToChars(n) == IF n < 0 THEN <<"-">> \o NatToChars(0 - n) ELSE NatToChars(n)

\* String.prototype.includes
Includes(s, needle) ==
    \E i \in 1..(Len(s) - Len(needle) + 1) :
        SubSeq(s, i, i + Len(needle) - 1) = needle

StartsWith(s, prefix) ==
    /\ Len(s) >= Len(prefix)
    /\ SubSeq(s, 1, Len(prefix)) = prefix

(***************************************************************************)
(* config.ts: PRICING is parseFloat(process.env.X || default).             *)
(* A price is kept exactly, in millionths of a USDC (the asset's smallest  *)
(* unit): [nan |-> BOOLEAN, micros |-> Int].                               *)
(***************************************************************************)
NaN == [nan |-> TRUE, micros |-> 0]
Num(n) == [nan |-> FALSE, micros |-> n]

\* how many digits s holds from position i on
RECURSIVE DigitRun(_, _)
DigitRun(s, i) ==
    IF i <= Len(s) /\ s[i] \in Digit THEN 1 + DigitRun(s, i + 1) ELSE 0

\* the digits s[i .. i+n-1] as a whole number
RECURSIVE WholeValue(_, _, _)
WholeValue(s, i, n) ==
    IF n = 0 THEN 0
    ELSE 10 * WholeValue(s, i, n - 1) + DigitVal(s[i + n - 1])

RECURSIVE Pow10(_)
Pow10(k) == IF k = 0 THEN 1 ELSE 10 * Pow10(k - 1)

\* the fraction digits s[i .. i+n-1] in millionths (digits past the sixth dropped)
RECURSIVE FractionMicros(_, _, _)
FractionMicros(s, i, n) ==
    IF n = 0 THEN 0
    ELSE FractionMicros(s, i, n - 1)
         + (IF n <= 6 THEN DigitVal(s[i + n - 1]) * Pow10(6 - n) ELSE 0)

\* parseFloat: optional sign, digits, optional "." and digits; the longest such
\* prefix is the number, NaN when it holds no digit
parseFloat(s) ==
    LET neg   == Len(s) >= 1 /\ s[1] = "-"
        start == IF neg THEN 2 ELSE 1
        nInt  == DigitRun(s, start)
        dot   == start + nInt
        hasDot == dot <= Len(s) /\ s[dot] = "."
        nFrac == IF hasDot THEN DigitRun(s, dot + 1) ELSE 0
        mag   == WholeValue(s, start, nInt) * 1000000
                 + FractionMicros(s, dot + 1, nFrac)
    IN  IF nInt + nFrac = 0 THEN NaN
        ELSE Num(IF neg THEN 0 - mag ELSE mag)

\* a <= b on JavaScript numbers: false as soon as one side is NaN
NumLeq(a, b) == ~a.nan /\ ~b.nan /\ a.micros <= b.micros

\* a JavaScript value that is a string or undefined
Undefined == [def |-> FALSE, text |-> <<>>]
Str(s) == [def |-> TRUE, text |-> s]

\* v || fallback on such a value: undefined and "" are falsy
OrDefault(v, fallback) == IF v.def /\ v.text # <<>> THEN v.text ELSE fallback

Tiers == <<"basic", "standard", "premium">>
TierSet == {Tiers[i] : i \in 1..Len(Tiers)}

DefaultPriceText ==
    [basic    |-> <<"0", ".", "0", "1">>,
     standard |-> <<"0", ".", "0", "2">>,
     premium  |-> <<"0", ".", "0", "5">>]

PRICING(e) ==
    [t \in TierSet |-> parseFloat(OrDefault(e[t], DefaultPriceText[t]))]

TIER_LIMITS ==
    [basic    |-> [timeout |-> 10000, memory |-> 64],
     standard |-> [timeout |-> 30000, memory |-> 128],
     premium  |-> [timeout |-> 60000, memory |-> 256]]

(***************************************************************************)
(* sandbox.ts: generateProof / verifyProof                                 *)
(***************************************************************************)
NetworkName == "base"
WalletBase == "0x11c24Fbcd702cd611729F8402d8fB51ECa75Ba83"

\* one property of an object literal: <<key, is the value defined, value>>
Field(k, v) == <<k, TRUE, v>>
OptField(k, opt) == <<k, opt.def, opt.text>>

\* JSON.stringify of an object: its properties in insertion order, those whose
\* value is undefined left out
JSONstringify(props) == SelectSeq(props, LAMBDA p : p[2])

\* createHash('sha256').update(s).digest('hex'): a collision-free digest of s
sha256(s) == <<"sha256", s>>

\* generateProof(data) evaluated when Date.now() = clock
generateProof(data, clock) ==
    sha256(JSONstringify(data \o <<Field("timestamp", clock),
                                   Field("network", NetworkName),
                                   Field("executor", WalletBase)>>))

\* verifyProof(proof, data) evaluated when Date.now() = clock
verifyProof(proof, data, clock) == proof = generateProof(data, clock)

\* the data execute hands to generateProof on its success path
SuccessProofData(code, output, executionTime, executionId) ==
    <<Field("code", code), Field("output", output),
      Field("executionTime", executionTime), Field("executionId", executionId)>>

\* the data execute hands to generateProof in its catch block
ErrorProofData(code, message, executionTime, executionId) ==
    <<Field("code", code), OptField("error", message),
      Field("executionTime", executionTime), Field("executionId", executionId)>>

(***************************************************************************)
(* The code a request carries.  A code is named by a short string; what    *)
(* running it does is Program(code): the lines it logs through             *)
(* console.log, in order, then how the run ends.                           *)
(*   complete  the script returns                                          *)
(*   throw     the script throws `thrown`                                  *)
(*   loop      the script never returns: the isolate aborts it on timeout  *)
(*   alloc     the script exhausts the isolate's memory limit              *)
(*   syntax    compileScript rejects the script                            *)
(***************************************************************************)
\* a thrown JavaScript value: null/undefined, or a value whose .message is a
\* string (an Error) or undefined (a thrown string, number, plain object)
ErrorOf(msg) == [nullish |-> FALSE, message |-> Str(msg)]
ValueWithoutMessage == [nullish |-> FALSE, message |-> Undefined]
Nullish == [nullish |-> TRUE, message |-> Undefined]

Boom == <<"b", "o", "o", "m">>
TimeoutWord == <<"t", "i", "m", "e", "o", "u", "t">>
OutOfMemory == <<"o", "u", "t", " ", "o", "f", " ", "m", "e", "m", "o", "r", "y">>
UnexpectedToken == <<"U", "n", "e", "x", "p", "e", "c", "t", "e", "d", " ", "t", "o", "k", "e", "n">>

Program(code) ==
    CASE code = "log2"       -> [logs |-> <<<<"a">>, <<" ", "b", " ">>>>, end |-> "complete",
                                 thrown |-> Nullish, heap |-> 2000]
      [] code = "quiet"      -> [logs |-> <<>>, end |-> "complete",
                                 thrown |-> Nullish, heap |-> 1000]
      [] code = "throwBoom"  -> [logs |-> <<<<"a">>>>, end |-> "throw",
                                 thrown |-> ErrorOf(Boom), heap |-> 1000]
      [] code = "throwTimeoutText" -> [logs |-> <<>>, end |-> "throw",
                                 thrown |-> ErrorOf(TimeoutWord), heap |-> 1000]
      [] code = "throwMemoryText"  -> [logs |-> <<>>, end |-> "throw",
                                 thrown |-> ErrorOf(OutOfMemory), heap |-> 1000]
      [] code = "throwString" -> [logs |-> <<>>, end |-> "throw",
                                 thrown |-> ValueWithoutMessage, heap |-> 1000]
      [] code = "throwNull"  -> [logs |-> <<>>, end |-> "throw",
                                 thrown |-> Nullish, heap |-> 1000]
      [] code = "loop"       -> [logs |-> <<<<"a">>>>, end |-> "loop",
                                 thrown |-> Nullish, heap |-> 1000]
      [] code = "alloc"      -> [logs |-> <<>>, end |-> "alloc",
                                 thrown |-> Nullish, heap |-> 3000]
      [] code = "syntax"     -> [logs |-> <<>>, end |-> "syntax",
                                 thrown |-> ErrorOf(UnexpectedToken), heap |-> 1000]

Codes == {"log2", "quiet", "throwBoom", "throwTimeoutText", "throwMemoryText",
          "throwString", "throwNull", "loop", "alloc", "syntax"}

\* The texts of the errors isolated-vm itself raises are not part of this
\* repository: each is one of the listed texts.
LibTimeoutTexts ==
    {<<"S", "c", "r", "i", "p", "t", " ", "e", "x", "e", "c", "u", "t", "i", "o", "n", " ", "t", "i", "m", "e", "d", " ", "o", "u", "t", ".">>,
     <<"S", "c", "r", "i", "p", "t", " ", "e", "x", "e", "c", "u", "t", "i", "o", "n", " ", "t", "i", "m", "e", "o", "u", "t">>}
LibMemoryTexts ==
    {<<"I", "s", "o", "l", "a", "t", "e", " ", "w", "a", "s", " ", "d", "i", "s", "p", "o", "s", "e", "d", " ", "d", "u", "r", "i", "n", "g", " ", "e", "x", "e", "c", "u", "t", "i", "o", "n", " ", "d", "u", "e", " ", "t", "o", " ", "m", "e", "m", "o", "r", "y", " ", "l", "i", "m", "i", "t">>}
LibFailureTexts ==
    {<<"I", "s", "o", "l", "a", "t", "e", " ", "i", "s", " ", "d", "i", "s", "p", "o", "s", "e", "d">>}
AlreadyDisposed == <<"I", "s", "o", "l", "a", "t", "e", " ", "i", "s", " ", "a", "l", "r", "e", "a", "d", "y", " ", "d", "i", "s", "p", "o", "s", "e", "d">>
CannotReadMessage == <<"C", "a", "n", "n", "o", "t", " ", "r", "e", "a", "d", " ", "p", "r", "o", "p", "e", "r", "t", "i", "e", "s", " ", "o", "f", " ", "n", "u", "l", "l", " ", "(", "r", "e", "a", "d", "i", "n", "g", " ", "'", "m", "e", "s", "s", "a", "g", "e", "'", ")">>

(***************************************************************************)
(* sandbox.ts: SandboxExecutor                                             *)
(***************************************************************************)
\* a JavaScript value that is a number or undefined
NoNumber == [def |-> FALSE, n |-> 0]
Number(n) == [def |-> TRUE, n |-> n]

Min(a, b) == IF a <= b THEN a ELSE b

(* mutant of EffectiveTimeout: the caller's value is taken without Math.min *)
EffectiveTimeoutUnclamped(requested, tier) ==
    IF requested.def /\ requested.n # 0 THEN requested.n ELSE TIER_LIMITS[tier].timeout

\* execute, step 3: Math.min(request.timeout || tierLimits.timeout, tierLimits.timeout)
EffectiveTimeout(requested, tier) ==
    LET ceiling == TIER_LIMITS[tier].timeout
    IN  Min(IF requested.def /\ requested.n # 0 THEN requested.n ELSE ceiling, ceiling)

Whitespace == {" ", "\n"}

\* String.prototype.trim
RECURSIVE TrimLeft(_)
TrimLeft(s) == IF s # <<>> /\ Head(s) \in Whitespace THEN TrimLeft(Tail(s)) ELSE s
RECURSIVE TrimRight(_)
TrimRight(s) ==
    IF s # <<>> /\ s[Len(s)] \in Whitespace THEN TrimRight(SubSeq(s, 1, Len(s) - 1)) ELSE s
Trim(s) == TrimRight(TrimLeft(s))

ExecutionTimeoutPrefix == <<"E", "x", "e", "c", "u", "t", "i", "o", "n", " ", "t", "i", "m", "e", "o", "u", "t", ":", " ", "c", "o", "d", "e", " ", "r", "a", "n", " ", "l", "o", "n", "g", "e", "r", " ", "t", "h", "a", "n", " ">>
MemoryLimitPrefix == <<"M", "e", "m", "o", "r", "y", " ", "l", "i", "m", "i", "t", " ", "e", "x", "c", "e", "e", "d", "e", "d", ":", " ", "m", "a", "x", "i", "m", "u", "m", " ">>
PythonComingSoon == <<"P", "y", "t", "h", "o", "n", " ", "e", "x", "e", "c", "u", "t", "i", "o", "n", " ", "c", "o", "m", "i", "n", "g", " ", "s", "o", "o", "n", ".", " ", "U", "s", "e", " ", "J", "a", "v", "a", "S", "c", "r", "i", "p", "t", " ", "f", "o", "r", " ", "n", "o", "w", ".">>
UnknownExecutionError == <<"U", "n", "k", "n", "o", "w", "n", " ", "e", "x", "e", "c", "u", "t", "i", "o", "n", " ", "e", "r", "r", "o", "r">>

\* executeJavaScript's catch block after isolate.dispose(): the value it throws
\* for the caught value `error`
ExecuteJavaScriptCatch(error, timeout, memoryLimitMB) ==
    IF error.nullish
    THEN ErrorOf(CannotReadMessage)       \* error.message of null: a TypeError
    ELSE IF error.message.def /\ Includes(error.message.text, TimeoutWord)
    THEN ErrorOf(ExecutionTimeoutPrefix \o NumToChars(timeout) \o <<"m", "s">>)
    ELSE IF error.message.def /\ Includes(error.message.text, <<"m", "e", "m", "o", "r", "y">>)
    THEN ErrorOf(MemoryLimitPrefix \o NumToChars(memoryLimitMB) \o <<"M", "B">>)
    ELSE error

AllowedLanguages == {"javascript", "python"}

\* the result type of execute
NoResult ==
    [success |-> FALSE, output |-> <<>>, error |-> Undefined, executionTime |-> 0,
     memoryUsed |-> 0, proof |-> <<>>, executionId |-> 0, tier |-> ""]

\* how a call of execute settles: resolved with a result, or rejected
Resolved(result) == [resolved |-> TRUE, result |-> result, error |-> Undefined]
Rejected(error) == [resolved |-> FALSE, result |-> NoResult, error |-> error.message]

\* execute, steps 4-5 and the return: executeJavaScript returned run
ExecuteReturn(rq, run, clock) ==
    LET executionTime == clock - rq.startTime
    IN  Resolved([success |-> TRUE,
                  output |-> run.output,
                  error |-> Undefined,
                  executionTime |-> executionTime,
                  memoryUsed |-> run.memoryUsed,
                  proof |-> generateProof(SuccessProofData(rq.body.code, run.output,
                                              executionTime, rq.executionId), clock),
                  executionId |-> rq.executionId,
                  tier |-> rq.body.tier])

(* mutant of ExecuteCatch: the result's error is error.message without a fallback *)
ExecuteCatchRawMessage(rq, error, clock) ==
    LET executionTime == clock - rq.startTime
    IN  Resolved([success |-> FALSE,
                  output |-> <<>>,
                  error |-> error.message,
                  executionTime |-> executionTime,
                  memoryUsed |-> 0,
                  proof |-> generateProof(ErrorProofData(rq.body.code, error.message,
                                              executionTime, rq.executionId), clock),
                  executionId |-> rq.executionId,
                  tier |-> rq.body.tier])

(* mutant of ExecuteCatch: the catch block rethrows the error *)
ExecuteCatchRethrows(rq, error, clock) == Rejected(error)

\* execute's catch block for the caught error (never null: see ExecuteJavaScriptCatch)
ExecuteCatch(rq, error, clock) ==
    LET executionTime == clock - rq.startTime
    IN  Resolved([success |-> FALSE,
                  output |-> <<>>,
                  error |-> Str(OrDefault(error.message, UnknownExecutionError)),
                  executionTime |-> executionTime,
                  memoryUsed |-> 0,
                  proof |-> generateProof(ErrorProofData(rq.body.code, error.message,
                                              executionTime, rq.executionId), clock),
                  executionId |-> rq.executionId,
                  tier |-> rq.body.tier])

(* mutant of ThrowInTry: the statement stands before execute's try block *)
ThrowUncaught(rq, error, clock) == Rejected(error)

\* a throw inside execute's try block: control passes to its catch block
ThrowInTry(rq, error, clock) == ExecuteCatch(rq, error, clock)

(***************************************************************************)
(* execute.ts: ExecuteRequestSchema and the responses of executeHandler    *)
(***************************************************************************)
MaxCodeLength == 10000

\* the length of the text of a code; "" is the empty text, "huge" an oversized one
CodeLength(code) ==
    CASE code = "" -> 0 [] code = "huge" -> MaxCodeLength + 1 [] OTHER -> 20

\* body.timeout: absent, a JSON number, or a JSON string
NoTimeout == [kind |-> "absent", n |-> 0]
TimeoutNumber(n) == [kind |-> "number", n |-> n]
TimeoutString == [kind |-> "string", n |-> 0]

(* mutant of Issues: parsing stops at the first field that violates the schema *)
FirstIssueOnly(body) ==
    IF CodeLength(body.code) < 1 \/ CodeLength(body.code) > MaxCodeLength THEN {"code"}
    ELSE IF body.language \notin {"javascript", "python"} THEN {"language"}
    ELSE IF body.tier \notin {"basic", "standard", "premium"} THEN {"tier"}
    ELSE IF body.timeout.kind = "string" THEN {"timeout"}
    ELSE {}

\* ExecuteRequestSchema.safeParse(body): the fields that violate the schema
Issues(body) ==
    {f \in {"code", "language", "tier", "timeout"} :
        \/ f = "code" /\ (CodeLength(body.code) < 1 \/ CodeLength(body.code) > MaxCodeLength)
        \/ f = "language" /\ body.language \notin {"javascript", "python"}
        \/ f = "tier" /\ body.tier \notin {"basic", "standard", "premium"}
        \/ f = "timeout" /\ body.timeout.kind = "string"}

\* validation.data.timeout as execute sees it
RequestTimeout(body) ==
    IF body.timeout.kind = "number" THEN Number(body.timeout.n) ELSE NoNumber

\* req.x402Payment
NoPayment ==
    [def |-> FALSE, verified |-> FALSE, amount |-> 0, payer |-> "", transactionHash |-> 0]

PaymentToken == "USDC"

\* the payment object of the execute response
NoReceipt ==
    [amount |-> 0, payer |-> "", transactionHash |-> 0, network |-> "", token |-> ""]

NoResponse ==
    [status |-> 0, error |-> "", issues |-> {}, maxAmountRequired |-> 0, payTo |-> "",
     hasResult |-> FALSE, result |-> NoResult, hasPayment |-> FALSE, payment |-> NoReceipt]

\* res.status(400).json({error: 'Invalid Request', details: issues})
ValidationResponse(issues) ==
    [NoResponse EXCEPT !.status = 400, !.error = "Invalid Request", !.issues = issues]

\* res.status(500).json({error: 'Internal Server Error'})
InvalidPaymentStateResponse ==
    [NoResponse EXCEPT !.status = 500, !.error = "Internal Server Error"]

\* executeHandler, step 4 and its catch block: the response for a settled execute
ExecuteResponse(rq, settled) ==
    IF settled.resolved
    THEN [NoResponse EXCEPT !.status = 200,
                            !.hasResult = TRUE, !.result = settled.result,
                            !.hasPayment = TRUE,
                            !.payment = [amount |-> rq.x402Payment.amount,
                                         payer |-> rq.x402Payment.payer,
                                         transactionHash |-> rq.x402Payment.transactionHash,
                                         network |-> NetworkName,
                                         token |-> PaymentToken]]
    ELSE [NoResponse EXCEPT !.status = 500, !.error = "Execution Failed"]

(***************************************************************************)
(* index.ts: app.post('/api/execute', requirePayment({amount: ...}), ...)  *)
(***************************************************************************)
\* the amount the route hands to requirePayment, whatever the request's tier
RoutePaymentAmount(p) == p["standard"]

(***************************************************************************)
(* middleware/x402.ts and lib/x402-payment.ts: requirePayment(options).    *)
(* The X-PAYMENT header is an EIP-3009 authorization; sigOk tells whether  *)
(* its signature matches its fields.                                       *)
(***************************************************************************)
UsdcAddress == "0x833589fCD6eDb6E08f4c7C32D4f71b54bdA02913"
Payer == "0xpayer"

NoHeader ==
    [present |-> FALSE, scheme |-> "", to |-> "", asset |-> "", value |-> 0,
     validAfter |-> 0, validBefore |-> 0, nonce |-> 0, sigOk |-> FALSE, from |-> ""]

\* the 402 challenge for a request without X-PAYMENT
ChallengeResponse(amount) ==
    [NoResponse EXCEPT !.status = 402, !.error = "Payment Required",
                       !.maxAmountRequired = amount.micros, !.payTo = WalletBase]

(* mutant of VerifyAuthorization: the signature is not checked *)
VerifyWithoutSignature(h, required, clock, seen) ==
    IF h.scheme # "eip3009" THEN "UnsupportedScheme"
    ELSE IF h.to # WalletBase THEN "RecipientMismatch"
    ELSE IF h.asset # UsdcAddress THEN "AssetMismatch"
    ELSE IF ~(~required.nan /\ h.value >= required.micros) THEN "InsufficientAmount"
    ELSE IF clock > h.validBefore THEN "AuthorizationExpired"
    ELSE IF clock < h.validAfter THEN "AuthorizationNotYetValid"
    ELSE IF h.nonce \in seen THEN "ReplayedAuthorization"
    ELSE "ok"

(* mutant of VerifyAuthorization: the signature is checked before the time window *)
VerifySignatureBeforeWindow(h, required, clock, seen) ==
    IF h.scheme # "eip3009" THEN "UnsupportedScheme"
    ELSE IF h.to # WalletBase THEN "RecipientMismatch"
    ELSE IF h.asset # UsdcAddress THEN "AssetMismatch"
    ELSE IF ~(~required.nan /\ h.value >= required.micros) THEN "InsufficientAmount"
    ELSE IF ~h.sigOk THEN "InvalidSignature"
    ELSE IF clock > h.validBefore THEN "AuthorizationExpired"
    ELSE IF clock < h.validAfter THEN "AuthorizationNotYetValid"
    ELSE IF h.nonce \in seen THEN "ReplayedAuthorization"
    ELSE "ok"

\* the verifier's checks, in order, short-circuiting on the first failure
VerifyAuthorization(h, required, clock, seen) ==
    IF h.scheme # "eip3009" THEN "UnsupportedScheme"
    ELSE IF h.to # WalletBase THEN "RecipientMismatch"
    ELSE IF h.asset # UsdcAddress THEN "AssetMismatch"
    ELSE IF ~(~required.nan /\ h.value >= required.micros) THEN "InsufficientAmount"
    ELSE IF clock > h.validBefore THEN "AuthorizationExpired"
    ELSE IF clock < h.validAfter THEN "AuthorizationNotYetValid"
    ELSE IF h.nonce \in seen THEN "ReplayedAuthorization"
    ELSE IF ~h.sigOk THEN "InvalidSignature"
    ELSE "ok"

(* mutant of ConsumeNonce: the nonce is not recorded *)
ConsumeNothing(seen, nonce) == seen

\* the verifier's side effect on success: insert the nonce into the replay store
ConsumeNonce(seen, nonce) == seen \cup {nonce}

RejectedResponse(error) == [NoResponse EXCEPT !.status = 402, !.error = error]

SettlementUnavailableResponse ==
    [NoResponse EXCEPT !.status = 402, !.error = "SettlementUnavailable"]

\* req.x402Payment after a successful settlement
VerifiedPayment(h) ==
    [def |-> TRUE, verified |-> TRUE, amount |-> h.value, payer |-> h.from,
     transactionHash |-> h.nonce]

(***************************************************************************)
(* Bounds and inputs                                                       *)
(***************************************************************************)
\* requests received, all of which may be in flight together
MaxRequests == 2
\* distinct nonces the payer signs
MaxNonce == 2
\* milliseconds Date.now() advances
MaxClock == 1
\* proof check: largest elapsed time in an input tuple
MaxElapsed == 1

Reqs == 1..MaxRequests

GoodHeader(value, nonce) ==
    [present |-> TRUE, scheme |-> "eip3009", to |-> WalletBase, asset |-> UsdcAddress,
     value |-> value, validAfter |-> 0, validBefore |-> 1000000, nonce |-> nonce,
     sigOk |-> TRUE, from |-> Payer]

\* authorizations whose validBefore lies in the past, with a second field off
ExpiredHeaders ==
    LET x == [GoodHeader(20000, 1) EXCEPT !.validBefore = 0 - 1]
    IN  {[x EXCEPT !.scheme = "exact"], [x EXCEPT !.to = "0xother"],
         [x EXCEPT !.asset = "0xotherToken"], [x EXCEPT !.value = 10000],
         [x EXCEPT !.sigOk = FALSE], [x EXCEPT !.nonce = MaxNonce]}

\* authorizations with one field off
BadHeaders ==
    LET g == GoodHeader(20000, 1)
    IN  {[g EXCEPT !.scheme = "exact"], [g EXCEPT !.to = "0xother"],
         [g EXCEPT !.asset = "0xotherToken"], [g EXCEPT !.validBefore = 0 - 1],
         [g EXCEPT !.validAfter = 999999], [g EXCEPT !.sigOk = FALSE]}
        \cup ExpiredHeaders

Amounts == {10000, 20000, 50000}

Headers ==
    {NoHeader} \cup BadHeaders
        \cup {GoodHeader(v, n) : v \in Amounts, n \in 1..MaxNonce}

BaseBody ==
    [code |-> "log2", language |-> "javascript", tier |-> "standard", timeout |-> NoTimeout]

TimeoutChoices ==
    {NoTimeout} \cup {TimeoutNumber(n) : n \in {0 - 1, 0, 5000, 10000, 70000}}

InvalidBodies ==
    {[BaseBody EXCEPT !.code = ""], [BaseBody EXCEPT !.code = "huge"],
     [BaseBody EXCEPT !.language = "ruby"], [BaseBody EXCEPT !.tier = "gold"],
     [BaseBody EXCEPT !.timeout = TimeoutString],
     [BaseBody EXCEPT !.code = "", !.tier = "gold"],
     [BaseBody EXCEPT !.code = "huge", !.language = "ruby", !.tier = "gold",
                      !.timeout = TimeoutString]}

Bodies ==
    {[BaseBody EXCEPT !.tier = t, !.timeout = x] : t \in TierSet, x \in TimeoutChoices}
        \cup {[BaseBody EXCEPT !.tier = "basic", !.code = c] : c \in Codes}
        \cup {[BaseBody EXCEPT !.language = "python"]}
        \cup InvalidBodies

\* the requests served in the background of the one under study: the r-th
\* request received carries the payer's r-th nonce
BackgroundInput(r) ==
    [header |-> GoodHeader(20000, IF r <= MaxNonce THEN r ELSE MaxNonce), body |-> BaseBody]

BackgroundInputs == {BackgroundInput(r) : r \in Reqs}

\* every header with every tier, and every body with a sufficient authorization
Inputs ==
    {[header |-> h, body |-> [BaseBody EXCEPT !.tier = t]] : h \in Headers, t \in TierSet}
        \cup {[header |-> GoodHeader(20000, 1), body |-> b] : b \in Bodies}
        \cup BackgroundInputs

(***************************************************************************)
(* State                                                                   *)
(***************************************************************************)
IdleRequest ==
    [pc |-> "idle", header |-> NoHeader, body |-> BaseBody, x402Payment |-> NoPayment,
     executed |-> FALSE, executionId |-> 0, startTime |-> 0, timeout |-> 0, memory |-> 0,
     isolate |-> 0, output |-> <<>>, logged |-> 0, aborted |-> "no",
     response |-> NoResponse]

NotLoaded == [loaded |-> FALSE, pricing |-> [t \in TierSet |-> NaN]]

NoEnv == [t \in TierSet |-> Undefined]

\* config.ts evaluated under the environment e
LoadedConfig(e) == [loaded |-> TRUE, pricing |-> PRICING(e)]

NoDigest == [def |-> FALSE, digest |-> <<>>]
NoProofInput == [data |-> <<>>]

\* the server is listening: config.ts has been evaluated, no request received
Init ==
    /\ env = NoEnv
    /\ CONFIG = LoadedConfig(env)
    /\ now = 0
    /\ reqs = [r \in Reqs |-> IdleRequest]
    /\ isolates = <<>>
    /\ consumed = {}
    /\ px = NoProofInput
    /\ pdigest = NoDigest
    /\ pverified = "none"

(***************************************************************************)
(* Actions of the POST /api/execute pipeline.  One action runs from one    *)
(* await to the next.                                                      *)
(***************************************************************************)
Respond(rq, response) == [rq EXCEPT !.pc = "responded", !.response = response]

InputOf(rq) == [header |-> rq.header, body |-> rq.body]

\* a request arrives
Receive(r) ==
    /\ reqs[r].pc = "idle"
    /\ IF r = 1 THEN TRUE ELSE reqs[r - 1].pc # "idle"
    /\ \E inp \in Inputs :
          /\ \/ inp = BackgroundInput(r)
             \/ \A o \in Reqs \ {r} :
                   reqs[o].pc = "idle" \/ InputOf(reqs[o]) = BackgroundInput(o)
          /\ reqs' = [reqs EXCEPT ![r] = [IdleRequest EXCEPT !.pc = "received",
                                             !.header = inp.header, !.body = inp.body]]
    /\ UNCHANGED <<env, CONFIG, now, isolates, consumed, px, pdigest, pverified>>

\* requirePayment: no evidence -> challenge; else verify, consume the nonce and
\* hand the authorization to the facilitator
Middleware(r) ==
    /\ reqs[r].pc = "received"
    /\ LET rq == reqs[r]
           required == RoutePaymentAmount(CONFIG.pricing)
           verdict == VerifyAuthorization(rq.header, required, now, consumed)
       IN  IF ~rq.header.present
           THEN /\ reqs' = [reqs EXCEPT ![r] = Respond(rq, ChallengeResponse(required))]
                /\ consumed' = consumed
           ELSE IF verdict # "ok"
           THEN /\ reqs' = [reqs EXCEPT ![r] = Respond(rq, RejectedResponse(verdict))]
                /\ consumed' = consumed
           ELSE /\ reqs' = [reqs EXCEPT ![r].pc = "settling"]
                /\ consumed' = ConsumeNonce(consumed, rq.header.nonce)
    /\ UNCHANGED <<env, CONFIG, now, isolates, px, pdigest, pverified>>

(* mutant of NewIsolate: an isolate constructed earlier is taken from a pool *)
PooledIsolate(isos, r) ==
    IF isos # <<>>
    THEN [isos EXCEPT ![Len(isos)].alive = TRUE]
    ELSE Append(isos, [owner |-> r, alive |-> TRUE, contexts |-> 0])

\* new ivm.Isolate({memoryLimit})
NewIsolate(isos, r) == Append(isos, [owner |-> r, alive |-> TRUE, contexts |-> 0])

\* isolate.dispose() in executeJavaScript's try block
Dispose(isos, id) == [isos EXCEPT ![id].alive = FALSE]

(* mutant of CatchDispose: the catch block does not dispose *)
CatchNoDispose(isos, id) == isos

\* isolate.dispose() in executeJavaScript's catch block
CatchDispose(isos, id) == [isos EXCEPT ![id].alive = FALSE]

\* executeHandler, step 2: req.x402Payment?.verified
PaymentVerified(rq) == rq.x402Payment.def /\ rq.x402Payment.verified

LanguageNotSupported(language) ==
    <<"L", "a", "n", "g", "u", "a", "g", "e", " ", language,
      " ", "n", "o", "t", " ", "s", "u", "p", "p", "o", "r", "t", "e", "d">>

\* execute settles: executeHandler answers
Finish(r, rq, settled) ==
    reqs' = [reqs EXCEPT ![r] = Respond(rq, ExecuteResponse(rq, settled))]

\* execute up to its first await: the language checks, the timeout, the isolate
ExecuteBegin(r, rq0) ==
    LET rq == [rq0 EXCEPT !.executed = TRUE, !.executionId = r, !.startTime = now]
    IN  IF rq.body.language \notin AllowedLanguages
        THEN /\ Finish(r, rq, ThrowInTry(rq,
                        ErrorOf(LanguageNotSupported(rq.body.language)), now))
             /\ isolates' = isolates
        ELSE IF rq.body.language # "javascript"
        THEN /\ Finish(r, rq, ThrowInTry(rq, ErrorOf(PythonComingSoon), now))
             /\ isolates' = isolates
        ELSE \/ \* the Isolate constructor throws: nothing was created
                \E text \in LibFailureTexts :
                   /\ Finish(r, rq, ThrowInTry(rq, ErrorOf(text), now))
                   /\ isolates' = isolates
             \/ LET isos == NewIsolate(isolates, r)
                IN  /\ isolates' = isos
                    /\ reqs' = [reqs EXCEPT ![r] =
                          [rq EXCEPT !.pc = "createContext",
                                     !.timeout = EffectiveTimeout(RequestTimeout(rq.body),
                                                                  rq.body.tier),
                                     !.memory = TIER_LIMITS[rq.body.tier].memory,
                                     !.isolate = Len(isos)]]

\* executeHandler up to its first await
ExecuteHandler(r, rq) ==
    LET issues == Issues(rq.body)
    IN  IF issues # {}
        THEN /\ reqs' = [reqs EXCEPT ![r] = Respond(rq, ValidationResponse(issues))]
             /\ isolates' = isolates
        ELSE IF ~PaymentVerified(rq)
        THEN /\ reqs' = [reqs EXCEPT ![r] = Respond(rq, InvalidPaymentStateResponse)]
             /\ isolates' = isolates
        ELSE ExecuteBegin(r, rq)

\* the facilitator answers: failure -> rejected; success -> req.x402Payment is
\* set and next() runs executeHandler
SettleDone(r) ==
    /\ reqs[r].pc = "settling"
    /\ \/ reqs' = [reqs EXCEPT ![r] = Respond(reqs[r], SettlementUnavailableResponse)]
          /\ isolates' = isolates
       \/ ExecuteHandler(r, [reqs[r] EXCEPT !.x402Payment = VerifiedPayment(reqs[r].header)])
    /\ UNCHANGED <<env, CONFIG, now, consumed, px, pdigest, pverified>>

\* executeJavaScript's try block throws `error`, Date.now() being clock: its
\* catch block, execute's catch block and the handler's response
FailRunAt(r, error, clock, why) ==
    LET rq == [reqs[r] EXCEPT !.aborted = why]
    IN  /\ isolates' = CatchDispose(isolates, rq.isolate)
        /\ now' = clock
        /\ Finish(r, rq, ExecuteCatch(rq,
                     ExecuteJavaScriptCatch(error, rq.timeout, rq.memory), clock))

FailRun(r, error) == FailRunAt(r, error, now, "no")

\* the isolate exceeded its memory limit and isolated-vm disposed it: script.run
\* rejects with `error`; the catch block's isolate.dispose() finds the isolate
\* disposed already, and either returns or throws
FailRunDisposed(r, error) ==
    LET rq == [reqs[r] EXCEPT !.aborted = "memory"]
        isos == [isolates EXCEPT ![rq.isolate].alive = FALSE]
    IN  /\ now' = now
        /\ \/ /\ isolates' = CatchDispose(isos, rq.isolate)
              /\ Finish(r, rq, ExecuteCatch(rq,
                        ExecuteJavaScriptCatch(error, rq.timeout, rq.memory), now))
           \/ /\ isolates' = isos
              /\ Finish(r, rq, ExecuteCatch(rq, ErrorOf(AlreadyDisposed), now))

\* Date.now() once a run that began now was aborted for exceeding timeout
AfterTimeout(timeout) == IF timeout > 0 THEN now + timeout ELSE now

\* await isolate.createContext() settles
CreateContextDone(r) ==
    /\ reqs[r].pc = "createContext"
    /\ \/ /\ isolates' = [isolates EXCEPT ![reqs[r].isolate].contexts = @ + 1]
          /\ reqs' = [reqs EXCEPT ![r].pc = "globalSet", ![r].output = <<>>]
          /\ now' = now
       \/ \E text \in LibFailureTexts : FailRun(r, ErrorOf(text))
    /\ UNCHANGED <<env, CONFIG, consumed, px, pdigest, pverified>>

\* await context.global.set('log', consoleLog) settles
GlobalSetDone(r) ==
    /\ reqs[r].pc = "globalSet"
    /\ \/ /\ reqs' = [reqs EXCEPT ![r].pc = "compile"]
          /\ isolates' = isolates
          /\ now' = now
       \/ \E text \in LibFailureTexts : FailRun(r, ErrorOf(text))
    /\ UNCHANGED <<env, CONFIG, consumed, px, pdigest, pverified>>

\* await isolate.compileScript(wrappedCode) settles
CompileDone(r) ==
    /\ reqs[r].pc = "compile"
    /\ LET prog == Program(reqs[r].body.code)
       IN  IF prog.end = "syntax"
           THEN FailRun(r, prog.thrown)
           ELSE /\ reqs' = [reqs EXCEPT ![r].pc = "running"]
                /\ isolates' = isolates
                /\ now' = now
    /\ UNCHANGED <<env, CONFIG, consumed, px, pdigest, pverified>>

(* mutant of Log: the captured output is one variable shared by all runs *)
LogShared(r) ==
    /\ reqs[r].pc = "running"
    /\ LET prog == Program(reqs[r].body.code)
       IN  /\ reqs[r].logged < Len(prog.logs)
           /\ reqs' = [o \in Reqs |->
                 IF reqs[o].pc = "running"
                 THEN [reqs[o] EXCEPT !.logged = IF o = r THEN @ + 1 ELSE @,
                                      !.output = @ \o prog.logs[reqs[r].logged + 1] \o <<"\n">>]
                 ELSE reqs[o]]
    /\ UNCHANGED <<env, CONFIG, now, isolates, consumed, px, pdigest, pverified>>

\* the running script calls console.log: the consoleLog reference appends
Log(r) ==
    /\ reqs[r].pc = "running"
    /\ LET prog == Program(reqs[r].body.code)
       IN  /\ reqs[r].logged < Len(prog.logs)
           /\ reqs' = [reqs EXCEPT ![r].logged = @ + 1,
                                   ![r].output = @ \o prog.logs[reqs[r].logged + 1] \o <<"\n">>]
    /\ UNCHANGED <<env, CONFIG, now, isolates, consumed, px, pdigest, pverified>>

\* script.run(context, {timeout}) settles, the script having logged its lines:
\* the rest of executeJavaScript, of execute and of executeHandler
RunOutcome(r) ==
    LET rq == reqs[r]
        prog == Program(rq.body.code)
    IN  CASE prog.end = "complete" ->
                \/ \* getHeapStatisticsSync, dispose, return
                   /\ isolates' = Dispose(isolates, rq.isolate)
                   /\ now' = now
                   /\ Finish(r, rq, ExecuteReturn(rq,
                          [output |-> Trim(rq.output), memoryUsed |-> prog.heap], now))
                \/ \* getHeapStatisticsSync throws
                   \E text \in LibFailureTexts : FailRun(r, ErrorOf(text))
          [] prog.end = "throw" -> FailRun(r, prog.thrown)
          [] prog.end = "loop" ->
                \E text \in LibTimeoutTexts :
                   FailRunAt(r, ErrorOf(text), AfterTimeout(rq.timeout), "timeout")
          [] prog.end = "alloc" ->
                \E text \in LibMemoryTexts : FailRunDisposed(r, ErrorOf(text))

(* mutant of RunDone: no timeout is handed to script.run, a script that does
   not return is never aborted *)
RunDoneNeverAborts(r) ==
    /\ reqs[r].pc = "running"
    /\ reqs[r].logged = Len(Program(reqs[r].body.code).logs)
    /\ Program(reqs[r].body.code).end # "loop"
    /\ RunOutcome(r)
    /\ UNCHANGED <<env, CONFIG, consumed, px, pdigest, pverified>>

\* await script.run(context, {timeout}) settles
RunDone(r) ==
    /\ reqs[r].pc = "running"
    /\ reqs[r].logged = Len(Program(reqs[r].body.code).logs)
    /\ RunOutcome(r)
    /\ UNCHANGED <<env, CONFIG, consumed, px, pdigest, pverified>>

Next ==
    \/ \E r \in Reqs : Receive(r)
    \/ \E r \in Reqs : Middleware(r)
    \/ \E r \in Reqs : SettleDone(r)
    \/ \E r \in Reqs : CreateContextDone(r)
    \/ \E r \in Reqs : GlobalSetDone(r)
    \/ \E r \in Reqs : CompileDone(r)
    \/ \E r \in Reqs : Log(r)
    \/ \E r \in Reqs : RunDone(r)

Spec == Init /\ [][Next]_vars

\* every pending step of a request is eventually taken: the middleware runs,
\* the facilitator answers within its timeout, each awaited promise settles,
\* the script runs on, and the isolate's timeout fires
SpecLive ==
    /\ Init /\ [][Next]_vars
    /\ \A r \in Reqs :
          /\ WF_vars(Middleware(r)) /\ WF_vars(SettleDone(r))
          /\ WF_vars(CreateContextDone(r)) /\ WF_vars(GlobalSetDone(r))
          /\ WF_vars(CompileDone(r)) /\ WF_vars(Log(r)) /\ WF_vars(RunDone(r))

(***************************************************************************)
(* execute called directly on the exported sandboxExecutor, with any       *)
(* ExecutionRequest                                                        *)
(***************************************************************************)
ExecutionRequests ==
    {[BaseBody EXCEPT !.tier = "basic", !.code = c] : c \in Codes}
        \cup {[BaseBody EXCEPT !.language = l, !.tier = t] :
                 l \in {"javascript", "python", "ruby"}, t \in TierSet}
        \cup {[BaseBody EXCEPT !.language = "ruby", !.code = "loop", !.timeout = x] :
                 x \in TimeoutChoices}

\* sandboxExecutor.execute(request)
Call(r) ==
    /\ reqs[r].pc = "idle"
    /\ IF r = 1 THEN TRUE ELSE reqs[r - 1].pc # "idle"
    /\ \E request \in ExecutionRequests :
          /\ \/ request = BaseBody
             \/ \A o \in Reqs \ {r} : reqs[o].pc = "idle" \/ reqs[o].body = BaseBody
          /\ ExecuteBegin(r, [IdleRequest EXCEPT !.body = request])
    /\ UNCHANGED <<env, CONFIG, now, consumed, px, pdigest, pverified>>

NextExecute ==
    \/ \E r \in Reqs : Call(r)
    \/ \E r \in Reqs : CreateContextDone(r)
    \/ \E r \in Reqs : GlobalSetDone(r)
    \/ \E r \in Reqs : CompileDone(r)
    \/ \E r \in Reqs : Log(r)
    \/ \E r \in Reqs : RunDone(r)

SpecExecute == Init /\ [][NextExecute]_vars

(***************************************************************************)
(* config.ts evaluated under every environment                             *)
(***************************************************************************)
EnvTexts ==
    {Undefined, Str(<<>>), Str(<<"0", ".", "0", "1">>), Str(<<"0", ".", "0", "2">>),
     Str(<<"0", ".", "0", "5">>), Str(<<"0", ".", "1">>), Str(<<"a", "b", "c">>)}

InitConfig ==
    /\ env \in [TierSet -> EnvTexts]
    /\ CONFIG = NotLoaded
    /\ now = 0
    /\ reqs = [r \in Reqs |-> IdleRequest]
    /\ isolates = <<>>
    /\ consumed = {}
    /\ px = NoProofInput
    /\ pdigest = NoDigest
    /\ pverified = "none"

\* the process starts: config.ts is evaluated
LoadConfig ==
    /\ ~CONFIG.loaded
    /\ CONFIG' = LoadedConfig(env)
    /\ UNCHANGED <<env, now, reqs, isolates, consumed, px, pdigest, pverified>>

NextConfig == LoadConfig

SpecConfig == InitConfig /\ [][NextConfig]_vars

(***************************************************************************)
(* generateProof and verifyProof called on the same data, at any times     *)
(***************************************************************************)
ProofInputs ==
    {SuccessProofData(c, o, t, id) :
        c \in {"log2", "quiet"}, o \in {<<>>, <<"a">>}, t \in 0..MaxElapsed, id \in Reqs}
    \cup {ErrorProofData(c, m, t, id) :
        c \in {"throwBoom", "throwString"}, m \in {Undefined, Str(Boom)},
        t \in 0..MaxElapsed, id \in Reqs}

InitProof ==
    /\ env = NoEnv
    /\ CONFIG = LoadedConfig(env)
    /\ now = 0
    /\ reqs = [r \in Reqs |-> IdleRequest]
    /\ isolates = <<>>
    /\ consumed = {}
    /\ px \in [data : ProofInputs]
    /\ pdigest = NoDigest
    /\ pverified = "none"

\* a millisecond passes
Tick ==
    /\ now < MaxClock
    /\ now' = now + 1
    /\ UNCHANGED <<env, CONFIG, reqs, isolates, consumed, px, pdigest, pverified>>

\* proof = generateProof(x)
GenerateProof ==
    /\ ~pdigest.def
    /\ pdigest' = [def |-> TRUE, digest |-> generateProof(px.data, now)]
    /\ UNCHANGED <<env, CONFIG, now, reqs, isolates, consumed, px, pverified>>

\* verifyProof(proof, x)
VerifyProof ==
    /\ pdigest.def
    /\ pverified' = IF verifyProof(pdigest.digest, px.data, now) THEN "true" ELSE "false"
    /\ UNCHANGED <<env, CONFIG, now, reqs, isolates, consumed, px, pdigest>>

NextProof == Tick \/ GenerateProof \/ VerifyProof

SpecProof == InitProof /\ [][NextProof]_vars

(***************************************************************************)
(* Properties                                                              *)
(***************************************************************************)
Responded(r) == reqs[r].pc = "responded"

\* C1: sandboxExecutor.execute runs, and an isolate exists, only for a request
\* that carried payment evidence which was verified (recognised scheme, payee,
\* asset and signature, nonce consumed) and settled; a request without evidence
\* ends in the 402 challenge, and any request that was not executed ends in an
\* error response without a result.
C1_ExecuteOnlyAfterPayment ==
    /\ \A r \in Reqs :
          reqs[r].executed =>
             /\ reqs[r].header.present
             /\ PaymentVerified(reqs[r])
             /\ reqs[r].header.scheme = "eip3009"
             /\ reqs[r].header.to = WalletBase
             /\ reqs[r].header.asset = UsdcAddress
             /\ reqs[r].header.sigOk
             /\ reqs[r].header.nonce \in consumed
    /\ \A i \in 1..Len(isolates) : reqs[isolates[i].owner].executed
    /\ \A r \in Reqs :
          Responded(r) /\ ~reqs[r].executed =>
             /\ reqs[r].response.status \in {400, 402, 500}
             /\ ~reqs[r].response.hasResult
             /\ reqs[r].isolate = 0
             /\ ~reqs[r].header.present => reqs[r].response.error = "Payment Required"

C1_Witness ==
    \E r1, r2 \in Reqs :
        /\ reqs[r1].executed /\ reqs[r1].isolate # 0
        /\ Responded(r2) /\ ~reqs[r2].header.present /\ reqs[r2].response.status = 402

\* C2: a request for tier t is executed only if its authorization amount is at
\* least the price of tier t; an otherwise valid authorization below that price
\* is rejected with InsufficientAmount and no isolate is created for it.
C2_AmountCoversTierPrice ==
    \A r \in Reqs :
        reqs[r].body.tier \in TierSet =>
           LET price == CONFIG.pricing[reqs[r].body.tier]
               below == reqs[r].header.present /\ reqs[r].header.value < price.micros
           IN  /\ reqs[r].executed => ~below
               /\ Responded(r) /\ below /\ reqs[r].header = GoodHeader(reqs[r].header.value,
                                                                 reqs[r].header.nonce)
                     => /\ reqs[r].response.error = "InsufficientAmount"
                        /\ reqs[r].isolate = 0

\* C3: a request for tier t without payment evidence is answered by a 402
\* challenge whose required amount is the price of tier t and whose payee is
\* the configured Base wallet.
C3_ChallengeQuotesTierPrice ==
    \A r \in Reqs :
        Responded(r) /\ ~reqs[r].header.present /\ reqs[r].body.tier \in TierSet =>
           /\ reqs[r].response.status = 402
           /\ reqs[r].response.maxAmountRequired = CONFIG.pricing[reqs[r].body.tier].micros
           /\ reqs[r].response.payTo = WalletBase

\* C4: an isolate is alive only while the executeJavaScript call that created
\* it is between its awaits; once that call has returned or thrown (the request
\* is answered), on every path, the isolate is disposed.
C4_IsolateDisposedOnEveryPath ==
    /\ \A r \in Reqs :
          Responded(r) /\ reqs[r].isolate # 0 => ~isolates[reqs[r].isolate].alive
    /\ \A i \in 1..Len(isolates) :
          isolates[i].alive =>
             /\ reqs[isolates[i].owner].isolate = i
             /\ reqs[isolates[i].owner].pc \in {"createContext", "globalSet", "compile", "running"}

\* a run that failed after its isolate was created has been answered
C4_Witness ==
    \E r \in Reqs :
        /\ Responded(r) /\ reqs[r].isolate # 0
        /\ reqs[r].response.hasResult /\ ~reqs[r].response.result.success
        /\ ~isolates[reqs[r].isolate].alive

\* C5: the timeout handed to script.run never exceeds the timeout ceiling of
\* the request's tier, whatever timeout the caller supplied.
C5_TimeoutWithinTierCeiling ==
    \A r \in Reqs :
        reqs[r].isolate # 0 => reqs[r].timeout <= TIER_LIMITS[reqs[r].body.tier].timeout

\* a caller timeout above the ceiling reached the run step
C5_Witness ==
    \E r \in Reqs :
        /\ reqs[r].pc = "running"
        /\ reqs[r].body.timeout.kind = "number"
        /\ reqs[r].body.timeout.n > TIER_LIMITS[reqs[r].body.tier].timeout
        /\ reqs[r].timeout = TIER_LIMITS[reqs[r].body.tier].timeout

\* C6: every execute call that reaches the run step has an isolate of its own,
\* constructed for it, with exactly one context; no isolate serves two calls,
\* and none stays alive once its call has ended.
C6_OneFreshIsolatePerExecution ==
    /\ \A r \in Reqs :
          reqs[r].isolate # 0 =>
             /\ reqs[r].isolate \in 1..Len(isolates)
             /\ isolates[reqs[r].isolate].owner = r
             /\ reqs[r].pc \in {"globalSet", "compile", "running"}
                   => isolates[reqs[r].isolate].contexts = 1
             /\ Responded(r) => ~isolates[reqs[r].isolate].alive
    /\ \A r1, r2 \in Reqs :
          r1 # r2 /\ reqs[r1].isolate # 0 => reqs[r1].isolate # reqs[r2].isolate
    /\ Cardinality({r \in Reqs : reqs[r].isolate # 0}) = Len(isolates)
    /\ \A i \in 1..Len(isolates) : isolates[i].contexts <= 1

\* two executions are running at once
C6_Witness ==
    \E r1, r2 \in Reqs :
        /\ r1 # r2
        /\ reqs[r1].pc = "running" /\ reqs[r2].pc = "running"
        /\ isolates[reqs[r1].isolate].alive /\ isolates[reqs[r2].isolate].alive

\* C7: every admitted request (verified payment, valid body) is answered with
\* the execution result and its proof together with the payment receipt
\* (amount, payer, transaction hash, network, token), also when the execution
\* failed.
C7_ReceiptOnEveryAdmittedResponse ==
    \A r \in Reqs :
        Responded(r) /\ PaymentVerified(reqs[r]) /\ Issues(reqs[r].body) = {} =>
           /\ reqs[r].response.status = 200
           /\ reqs[r].response.hasResult
           /\ reqs[r].response.result.proof # <<>>
           /\ reqs[r].response.hasPayment
           /\ reqs[r].response.payment =
                 [amount |-> reqs[r].header.value, payer |-> reqs[r].header.from,
                  transactionHash |-> reqs[r].x402Payment.transactionHash,
                  network |-> NetworkName, token |-> PaymentToken]

\* a run aborted on timeout was answered with success = false and the receipt
C7_Witness ==
    \E r \in Reqs :
        /\ Responded(r) /\ reqs[r].aborted = "timeout"
        /\ reqs[r].response.hasResult /\ ~reqs[r].response.result.success
        /\ reqs[r].response.hasPayment /\ reqs[r].response.payment.payer = Payer

\* C8: verifyProof(generateProof(x), x) is true, also when verifyProof is
\* called at a later clock time than generateProof.
C8_VerifyAcceptsGeneratedProof == pverified # "false"

\* C9: price, timeout ceiling and memory ceiling are non-decreasing from basic
\* to standard to premium, for every environment the process starts with.
C9_TiersMonotone ==
    CONFIG.loaded =>
       \A i, j \in 1..Len(Tiers) :
           i < j =>
              /\ NumLeq(CONFIG.pricing[Tiers[i]], CONFIG.pricing[Tiers[j]])
              /\ TIER_LIMITS[Tiers[i]].timeout <= TIER_LIMITS[Tiers[j]].timeout
              /\ TIER_LIMITS[Tiers[i]].memory <= TIER_LIMITS[Tiers[j]].memory

\* the error texts that reach executeJavaScript's catch block from below
RawTexts ==
    LibTimeoutTexts \cup LibMemoryTexts \cup LibFailureTexts \cup {AlreadyDisposed}
        \cup {Program(c).thrown.message.text : c \in {d \in Codes : Program(d).end \in {"throw", "syntax"}
                                                       /\ Program(d).thrown.message.def}}

\* C10: the error of a failed run reports a timeout exactly when the run was
\* aborted for exceeding its timeout, a memory-limit error exactly when it was
\* aborted for exceeding the memory ceiling, and otherwise a structured error
\* that is not the raw lower-level error text.
C10_FailureKindsDistinguished ==
    \A r \in Reqs :
        Responded(r) /\ reqs[r].isolate # 0 /\ reqs[r].response.hasResult
                     /\ ~reqs[r].response.result.success =>
           LET e == reqs[r].response.result.error.text
           IN  /\ StartsWith(e, ExecutionTimeoutPrefix) <=> reqs[r].aborted = "timeout"
               /\ StartsWith(e, MemoryLimitPrefix) <=> reqs[r].aborted = "memory"
               /\ reqs[r].aborted = "no" => e \notin RawTexts

PassedVerification(r) ==
    \/ reqs[r].pc = "settling"
    \/ reqs[r].x402Payment.def
    \/ Responded(r) /\ reqs[r].response.error = "SettlementUnavailable"

\* C12: among the requests that present the same nonce, in any interleaving, at
\* most one passes the verifier and is admitted to execution, its nonce being
\* in the replay store from then on; every other presentation of the identical
\* authorization is rejected with ReplayedAuthorization and not executed.
C12_NonceAdmitsAtMostOnce ==
    /\ \A r \in Reqs : PassedVerification(r) => reqs[r].header.nonce \in consumed
    /\ \A r1, r2 \in Reqs :
          r1 # r2 /\ reqs[r1].header.present /\ reqs[r2].header.present
                  /\ reqs[r1].header.nonce = reqs[r2].header.nonce =>
             /\ ~(PassedVerification(r1) /\ PassedVerification(r2))
             /\ ~(reqs[r1].executed /\ reqs[r2].executed)
             /\ PassedVerification(r1) /\ reqs[r2].header = reqs[r1].header /\ Responded(r2)
                   => /\ reqs[r2].response.error = "ReplayedAuthorization"
                      /\ ~reqs[r2].executed /\ reqs[r2].isolate = 0

\* while one request runs, another that presented the identical authorization
\* has been rejected as a replay
C12_Witness ==
    \E r1, r2 \in Reqs :
        /\ r1 # r2 /\ reqs[r1].header.present /\ reqs[r2].header = reqs[r1].header
        /\ reqs[r1].pc = "running"
        /\ Responded(r2) /\ reqs[r2].response.error = "ReplayedAuthorization"

\* the request presents an authorization whose validBefore lies in the past
Expired(r) == reqs[r].header.present /\ reqs[r].header.validBefore < 0

C14_TimeoutIsMinOfCallerAndCeiling ==
    \A r \in Reqs :
        reqs[r].isolate # 0 /\ reqs[r].body.timeout.kind = "number" =>
           LET n == reqs[r].body.timeout.n
               ceiling == TIER_LIMITS[reqs[r].body.tier].timeout
           IN  /\ reqs[r].timeout = (IF n <= ceiling THEN n ELSE ceiling)
               /\ n < ceiling => reqs[r].timeout = n

\* C15: memoryUsed of a result is the isolate's used heap size read before the
\* isolate is disposed; a failed run for which an isolate was created (timeout,
\* memory-limit abort, runtime error) reports that heap size too, not a
\* placeholder.
C15_MemoryUsedReportedOnFailure ==
    \A r \in Reqs :
        Responded(r) /\ reqs[r].isolate # 0 /\ reqs[r].response.hasResult =>
           LET res == reqs[r].response.result
               prog == Program(reqs[r].body.code)
           IN  /\ res.success => res.memoryUsed = prog.heap
               /\ ~res.success /\ (reqs[r].aborted \in {"timeout", "memory"} \/ prog.end = "throw")
                     => res.memoryUsed = prog.heap

\* the first k lines of logs, each followed by a newline
RECURSIVE OwnLines(_, _)
OwnLines(logs, k) ==
    IF k = 0 THEN <<>> ELSE OwnLines(logs, k - 1) \o logs[k] \o <<"\n">>

\* C16: under any interleaving of executions, the output captured for a run
\* holds exactly the lines its own code has logged so far, in order, and the
\* output of its result is those lines, trimmed; the isolate and the result of
\* a request are its own.
C16_OutputIsOwnLogLines ==
    \A r \in Reqs :
        LET logs == Program(reqs[r].body.code).logs
        IN  /\ reqs[r].pc \in {"globalSet", "compile"} => reqs[r].output = <<>>
            /\ reqs[r].pc = "running" => reqs[r].output = OwnLines(logs, reqs[r].logged)
            /\ reqs[r].isolate # 0 => isolates[reqs[r].isolate].owner = r
            /\ Responded(r) /\ reqs[r].response.hasResult =>
                  /\ reqs[r].response.result.executionId = r
                  /\ reqs[r].response.result.success =>
                        reqs[r].response.result.output = Trim(OwnLines(logs, Len(logs)))

\* a run answered with its two lines while another run has logged
C16_Witness ==
    \E r1, r2 \in Reqs :
        /\ r1 # r2
        /\ Responded(r1) /\ reqs[r1].response.result.success
        /\ reqs[r1].response.result.output = <<"a", "\n", " ", "b">>
        /\ reqs[r2].pc = "running" /\ reqs[r2].logged > 0
        /\ reqs[r2].startTime <= reqs[r1].startTime

\* the request's payment was verified and it has not been answered yet
InFlight(r) ==
    reqs[r].pc \in {"settling", "createContext", "globalSet", "compile", "running"}

\* C17: every admitted request is eventually answered; a run whose code never
\* returns is aborted on its timeout and answered with a timed-out result.
C17_AdmittedEventuallyResponded ==
    \A r \in Reqs :
        /\ InFlight(r) ~> Responded(r)
        /\ (reqs[r].pc = "running" /\ Program(reqs[r].body.code).end = "loop")
              ~> (/\ Responded(r) /\ reqs[r].aborted = "timeout"
                  /\ reqs[r].response.hasResult /\ ~reqs[r].response.result.success)

\* a run that never returns was answered once its timeout had elapsed
C17_Witness ==
    \E r \in Reqs :
        /\ Responded(r) /\ reqs[r].body.code = "loop"
        /\ reqs[r].timeout > 0 /\ now >= reqs[r].startTime + reqs[r].timeout
        /\ reqs[r].response.result.executionTime >= reqs[r].timeout

\* C18: the body is validated before any payment work: a request whose body
\* fails the execute schema is answered with the validation error while its
\* authorization has been neither verified nor settled and its nonce has not
\* been consumed.
C18_ValidationBeforePayment ==
    \A r \in Reqs :
        Issues(reqs[r].body) # {} =>
           /\ ~PassedVerification(r)
           /\ Responded(r) =>
                 /\ reqs[r].response.status = 400
                 /\ reqs[r].response.error = "Invalid Request"
                 /\ ~reqs[r].x402Payment.def
                 /\ reqs[r].header.present => reqs[r].header.nonce \notin consumed

\* C19: every result of execute has a consistent shape: success = true comes
\* with no error and with the trimmed captured log output; success = false
\* comes with a non-empty error string, the empty output (lines logged before
\* the failure are dropped) and memoryUsed 0; tier is the request's tier and
\* proof is non-empty in both cases.
C19_ResultShape ==
    \A r \in Reqs :
        Responded(r) /\ reqs[r].executed =>
           LET res == reqs[r].response.result
               logs == Program(reqs[r].body.code).logs
           IN  /\ reqs[r].response.hasResult
               /\ res.tier = reqs[r].body.tier
               /\ res.proof # <<>>
               /\ res.success =>
                     /\ ~res.error.def
                     /\ res.output = Trim(reqs[r].output)
                     /\ reqs[r].logged = Len(logs)
                     /\ res.output = <<>> \/ (Head(res.output) \notin Whitespace
                                               /\ res.output[Len(res.output)] \notin Whitespace)
               /\ ~res.success =>
                     /\ res.error.def /\ res.error.text # <<>>
                     /\ res.output = <<>>
                     /\ res.memoryUsed = 0

\* a run that logged a line and then threw was answered without output,
\* another that completed with its output
C19_Witness ==
    \E r1, r2 \in Reqs :
        /\ Responded(r1) /\ reqs[r1].body.code = "throwBoom" /\ reqs[r1].logged = 1
        /\ reqs[r1].output # <<>> /\ reqs[r1].response.result.output = <<>>
        /\ Responded(r2) /\ reqs[r2].response.result.success
        /\ reqs[r2].response.result.output # <<>>

\* C20: execute never rejects: whatever the language, the code or the value
\* thrown, a call with a tier of {basic, standard, premium} resolves to a
\* result, and for a language other than javascript no isolate is created.
C20_ExecuteNeverRejects ==
    \A r \in Reqs :
        /\ Responded(r) /\ reqs[r].executed =>
              /\ reqs[r].response.hasResult
              /\ reqs[r].response.error # "Execution Failed"
              /\ reqs[r].response.result.executionId = r
        /\ reqs[r].executed /\ reqs[r].body.language # "javascript" =>
              /\ Responded(r) /\ ~reqs[r].response.result.success
              /\ reqs[r].isolate = 0
              /\ \A i \in 1..Len(isolates) : isolates[i].owner # r

\* a call with an unsupported language resolved, no isolate but the one of a
\* concurrent javascript call having been created
C20_Witness ==
    \E r1, r2 \in Reqs :
        /\ Responded(r1) /\ reqs[r1].body.language = "ruby"
        /\ reqs[r1].response.hasResult
        /\ reqs[r1].response.result.error = Str(LanguageNotSupported("ruby"))
        /\ reqs[r2].body.language = "javascript" /\ reqs[r2].pc = "running"
        /\ Len(isolates) = 1

\* the values hashed into proof under the property key
Hashed(proof, key) ==
    IF proof = <<>> THEN {}
    ELSE {proof[2][i][3] : i \in {j \in 1..Len(proof[2]) : proof[2][j][1] = key}}

\* C21: the error text hashed into the proof of a failed execution is the text
\* returned in the result's error field, the output hashed into the proof of a
\* successful execution is the output returned, and in both cases the elapsed
\* time hashed is the executionTime returned.
C21_ProofHashesReturnedFields ==
    \A r \in Reqs :
        Responded(r) /\ reqs[r].response.hasResult =>
           LET res == reqs[r].response.result
           IN  /\ Hashed(res.proof, "executionTime") = {res.executionTime}
               /\ res.success => Hashed(res.proof, "output") = {res.output}
               /\ ~res.success => Hashed(res.proof, "error") = {res.error.text}

\* C22: the timeout handed to script.run is a positive number of milliseconds
\* not above the tier ceiling, for every caller timeout the execute schema
\* lets through, zero and negative numbers included.
C22_TimeoutPositive ==
    \A r \in Reqs :
        reqs[r].isolate # 0 /\ Issues(reqs[r].body) = {} =>
           /\ 0 < reqs[r].timeout
           /\ reqs[r].timeout <= TIER_LIMITS[reqs[r].body.tier].timeout

====
